---- MODULE Spec2Model ----
(***************************************************************************)
(* EV Charging Optimizer: the /api/optimize handler (optimize_route) of    *)
(* src/main.py with its collaborators geocode_address, list_stations and   *)
(* haversine_km.                                                           *)
(*                                                                         *)
(* Units.  Coordinates are positions along one meridian, in metres, so a   *)
(* distance is an integer number of thousandths of a km.  A reported       *)
(* distance_km (2 decimals) is an integer number of hundredths of a km; a  *)
(* reported eta_minutes (1 decimal) is an integer number of tenths of a    *)
(* minute.  Strings that the code lower-cases are sequences of ASCII       *)
(* codes.  An Optional value is a sequence of length 0 (None) or 1.        *)
(***************************************************************************)
EXTENDS Integers, Sequences, FiniteSets

VARIABLES
    db,             \* the station store: [connected, station]
    req,            \* req[r]: the OptimizeRequest of request r
    pc,             \* pc[r]: the statement request r is about to execute
    geo,            \* geo[r]: what the geocoding provider did for r
    origin_coords,  \* origin_coords[r]: Optional coordinate
    fetched,        \* fetched[r]: Optional list, what list_stations() returned
    stations,       \* stations[r]: the local list `stations`
    candidates,     \* candidates[r]: the local list `candidates`
    best,           \* best[r]: Optional, the local `best`
    tie,            \* tie[r]: how the round() calls of r settle a decimal tie
    raised,         \* raised[r]: Optional HTTPException
    response        \* response[r]: Optional OptimizeResponse

vars == <<db, req, pc, geo, origin_coords, fetched, stations, candidates,
          best, tie, raised, response>>

-----------------------------------------------------------------------------
(* Bounds of the model *)

\* the longest station collection of a sequential run
MaxStations == 6

\* the longest station collection of a concurrent run
MaxStationsConc == 2

\* the number of requests in flight in a concurrent run
NumConcurrent == 2

-----------------------------------------------------------------------------
(* Strings as ASCII codes *)

StrEmpty == << >>

StrCCS == <<67, 67, 83>>

StrCcsLower == <<99, 99, 115>>

StrType2 == <<84, 121, 112, 101, 50>>

StrCHAdeMO == <<67, 72, 65, 100, 101, 77, 79>>

\* one character of str.lower()
LowerChar(c) == IF c \in 65..90 THEN c + 32 ELSE c

\* str.lower()
Lower(s) == [i \in DOMAIN s |-> LowerChar(s[i])]

None == << >>

Some(x) == <<x>>

\* Python truthiness of an Optional[str]: None and "" are falsy
TruthyStr(p) == p # None /\ p[1] # StrEmpty

-----------------------------------------------------------------------------
(* Program constants *)

\* candidates = sorted(...)[:5]
MaxCandidates == 5

\* eta_minutes = (best["distance_km"] / 60) * 60: the divisor, km/h
AverageSpeedKmh == 60

\* ... and the factor, minutes per hour
MinutesPerHour == 60

\* the position of the in-memory "Sample Station" list_stations falls back to
SampleLatitude == 9000

OriginNotFound == [status_code |-> 404, detail |-> "Origin not found"]

NoStationsForFilter ==
    [status_code |-> 404, detail |-> "No stations available for the given filter"]

-----------------------------------------------------------------------------
(* Inputs *)

\* what a station document carries that optimize_route reads
StationKinds ==
    { [latitude |-> 46, charger_type |-> StrCCS],
      [latitude |-> -46, charger_type |-> StrCcsLower],
      [latitude |-> 54, charger_type |-> StrType2] }

\* the documents of db["station"] in insertion order; the id is the _id
Collections(n) ==
    UNION { { [i \in 1..k |-> [id |-> i, latitude |-> f[i].latitude,
                               charger_type |-> f[i].charger_type]] :
              f \in [1..k -> StationKinds] } : k \in 0..n }

Databases(n) ==
    { [connected |-> FALSE, station |-> << >>] }
    \cup { [connected |-> TRUE, station |-> c] : c \in Collections(n) }

\* the places the geocoding provider knows, with their positions
Gazetteer == [berlin |-> 0, spandau |-> 4, potsdam |-> 9]

Queries == {"berlin", "spandau", "potsdam", "nowhere"}

Radii == {-1000, 0, 46}

Preferences == {None, Some(StrEmpty), Some(StrCCS), Some(StrCHAdeMO)}

OptimizeRequests ==
    [origin : Queries, max_distance_km : Radii, preferred_charger : Preferences]

\* what geolocator.geocode(query) can do: return a location, return None,
\* or raise
GeocoderAnswers(query) ==
    (IF query \in DOMAIN Gazetteer
        THEN { [kind |-> "location", latitude |-> Gazetteer[query]] }
        ELSE { [kind |-> "none", latitude |-> 0] })
    \cup { [kind |-> "raise", latitude |-> 0] }

\* round() rounds the double it is given: a value at a decimal tie goes up or
\* down with the binary expansion of that double, to even when it is exact.
\* The distance and the ETA are two doubles ((d / 60) * 60 may be a neighbour
\* of d), so each has a rule of its own; for the one value of the ETA "even"
\* is one of the other two.
TieRules == {"even", "up", "down"}

TieChoices == [km : TieRules, eta : {"up", "down"}]

-----------------------------------------------------------------------------
(* Pure functions *)

Abs(x) == IF x < 0 THEN -x ELSE x

Min(a, b) == IF a <= b THEN a ELSE b

\* a geocode_address whose except branch answers a default coordinate
geocode_address_default(answer) ==
    IF answer.kind = "none" THEN None ELSE Some([lat |-> answer.latitude])

\* geocode_address: the location as a coordinate; None when the provider
\* finds nothing and also when it raises
geocode_address(answer) ==
    IF answer.kind = "location" THEN Some([lat |-> answer.latitude]) ELSE None

\* haversine_km: the geodesic distance of two coordinates
haversine_km(a, b) == Abs(a.lat - b.lat)

\* list_stations() as optimize_route calls it (no city, no charger): the
\* in-memory sample without a database, else every station document
list_stations(d) ==
    IF ~d.connected
        THEN << [id |-> 0, latitude |-> SampleLatitude, charger_type |-> StrCCS] >>
        ELSE d.station

\* [s for s in stations if s.charger_type.lower() == preferred.lower()]
FilterByCharger(ss, preferred) ==
    SelectSeq(ss, LAMBDA s : Lower(s.charger_type) = Lower(preferred))

\* a filter that keeps every station when none matches
FilteredOrAll(ss, preferred_charger) ==
    IF TruthyStr(preferred_charger)
          /\ FilterByCharger(ss, preferred_charger[1]) # << >>
        THEN FilterByCharger(ss, preferred_charger[1])
        ELSE ss

\* lines 213-214: the filter is applied only for a truthy preferred_charger
FilteredStations(ss, preferred_charger) ==
    IF TruthyStr(preferred_charger)
        THEN FilterByCharger(ss, preferred_charger[1])
        ELSE ss

\* {"station": s, "distance_km": haversine_km(origin, s)}
WithDistance(origin, s) ==
    [station |-> s,
     distance_km |-> haversine_km(origin, [lat |-> s.latitude])]

\* the test of line 222 with the comparison turned round
BeyondRadius(d_km, max_distance_km) == d_km >= max_distance_km

\* the test of line 222
WithinRadius(d_km, max_distance_km) == d_km <= max_distance_km

\* lines 219-223: the stations within the radius, in list order
CandidatesWithin(origin, ss, max_distance_km) ==
    SelectSeq([i \in DOMAIN ss |-> WithDistance(origin, ss[i])],
              LAMBDA c : WithinRadius(c.distance_km, max_distance_km))

\* lines 227-230: every station with its distance
StationsWithDist(origin, ss) == [i \in DOMAIN ss |-> WithDistance(origin, ss[i])]

\* an insertion that puts c in front of the elements with an equal key
InsertBeforeEqual(sorted, c) ==
    LET k == Cardinality({i \in DOMAIN sorted : sorted[i].distance_km < c.distance_km})
    IN SubSeq(sorted, 1, k) \o <<c>> \o SubSeq(sorted, k + 1, Len(sorted))

\* one insertion of a stable sort: c goes behind every element whose key is
\* not larger
InsertByDistance(sorted, c) ==
    LET k == Cardinality({i \in DOMAIN sorted : sorted[i].distance_km <= c.distance_km})
    IN SubSeq(sorted, 1, k) \o <<c>> \o SubSeq(sorted, k + 1, Len(sorted))

\* the list left as it is
Unsorted(cs) == cs

RECURSIVE SortPrefix(_, _)
SortPrefix(cs, n) ==
    IF n = 0 THEN << >> ELSE InsertByDistance(SortPrefix(cs, n - 1), cs[n])

\* sorted(cs, key=lambda x: x["distance_km"]): stable
SortByDistance(cs) == SortPrefix(cs, Len(cs))

\* cs[:5]
Truncate(cs) == SubSeq(cs, 1, Min(Len(cs), MaxCandidates))

\* lines 225-233 without the branch of line 225
SelectWithinOnly(origin, ss, max_distance_km) ==
    Truncate(SortByDistance(CandidatesWithin(origin, ss, max_distance_km)))

\* lines 225-233
SelectCandidates(origin, ss, max_distance_km) ==
    LET within == CandidatesWithin(origin, ss, max_distance_km)
    IN IF within = << >>
          THEN Truncate(SortByDistance(StationsWithDist(origin, ss)))
          ELSE Truncate(SortByDistance(within))

RECURSIVE MinFromLast(_, _, _)
MinFromLast(cs, i, m) ==
    IF i > Len(cs) THEN m
    ELSE MinFromLast(cs, i + 1, IF cs[i].distance_km <= m.distance_km THEN cs[i] ELSE m)

\* the last of the smallest
LastMinByDistance(cs) == MinFromLast(cs, 2, cs[1])

RECURSIVE MinFrom(_, _, _)
MinFrom(cs, i, m) ==
    IF i > Len(cs) THEN m
    ELSE MinFrom(cs, i + 1, IF cs[i].distance_km < m.distance_km THEN cs[i] ELSE m)

\* min(cs, key=lambda x: x["distance_km"]): the first of the smallest
MinByDistance(cs) == MinFrom(cs, 2, cs[1])

\* round(): x in units, to the nearest multiple of `unit`, counted in
\* multiples; a decimal tie goes where the rule says
RoundTo(x, unit, rule) ==
    LET q == x \div unit
        r == x % unit
    IN IF 2 * r < unit THEN q
       ELSE IF 2 * r > unit THEN q + 1
       ELSE IF rule = "up" THEN q + 1
       ELSE IF rule = "down" THEN q
       ELSE IF q % 2 = 0 THEN q ELSE q + 1

\* round(x, 2) of thousandths, in hundredths
Round2(x, rule) == RoundTo(x, 10, rule)

\* round(x, 1) of thousandths, in tenths
Round1(x, rule) == RoundTo(x, 100, rule)

\* the ETA at another average speed
EtaMinutesAt50(distance_km) == (distance_km * MinutesPerHour) \div 50

\* (distance_km / 60) * 60, in thousandths of a minute, in exact arithmetic
EtaMinutes(distance_km) == (distance_km * MinutesPerHour) \div AverageSpeedKmh

\* one entry of the response's candidates (name, longitude and power_kw are
\* copied from the station like the two fields kept here)
Summary(c, rule) ==
    [latitude |-> c.station.latitude,
     charger_type |-> c.station.charger_type,
     distance_km |-> Round2(c.distance_km, rule.km)]

\* lines 252-277
OptimizeResponse(origin, cs, b, rule) ==
    [origin |-> origin,
     best_station |-> b.station,
     distance_km |-> Round2(b.distance_km, rule.km),
     eta_minutes |-> Round1(EtaMinutes(b.distance_km), rule.eta),
     route_polyline |-> << origin.lat, b.station.latitude >>,
     candidates |-> [i \in DOMAIN cs |-> Summary(cs[i], rule)]]

-----------------------------------------------------------------------------
(* The handler, statement by statement *)

Set(f, r, v) == [f EXCEPT ![r] = v]

\* lines 207-209
Geocode(r) ==
    /\ pc[r] = "geocode"
    /\ \E answer \in GeocoderAnswers(req[r].origin) :
          LET coords == geocode_address(answer)
          IN /\ geo' = Set(geo, r, answer.kind)
             /\ origin_coords' = Set(origin_coords, r, coords)
             /\ IF coords = None
                   THEN /\ raised' = Set(raised, r, Some(OriginNotFound))
                        /\ pc' = Set(pc, r, "raised")
                   ELSE /\ raised' = raised
                        /\ pc' = Set(pc, r, "list")
    /\ UNCHANGED <<db, req, fetched, stations, candidates, best, tie, response>>

\* line 212
ListStations(r) ==
    /\ pc[r] = "list"
    /\ fetched' = Set(fetched, r, Some(list_stations(db)))
    /\ stations' = Set(stations, r, list_stations(db))
    /\ pc' = Set(pc, r, "filter")
    /\ UNCHANGED <<db, req, geo, origin_coords, candidates, best, tie, raised, response>>

\* lines 213-216 filtering the store's own list in place
FilterChargerInPlace(r) ==
    /\ pc[r] = "filter"
    /\ LET kept == FilteredStations(stations[r], req[r].preferred_charger)
       IN /\ stations' = Set(stations, r, kept)
          /\ db' = [db EXCEPT !.station = kept]
          /\ IF kept = << >>
                THEN /\ raised' = Set(raised, r, Some(NoStationsForFilter))
                     /\ pc' = Set(pc, r, "raised")
                ELSE /\ raised' = raised
                     /\ pc' = Set(pc, r, "select")
    /\ UNCHANGED <<req, geo, origin_coords, fetched, candidates, best, tie, response>>

\* lines 213-216
FilterCharger(r) ==
    /\ pc[r] = "filter"
    /\ LET kept == FilteredStations(stations[r], req[r].preferred_charger)
       IN /\ stations' = Set(stations, r, kept)
          /\ IF kept = << >>
                THEN /\ raised' = Set(raised, r, Some(NoStationsForFilter))
                     /\ pc' = Set(pc, r, "raised")
                ELSE /\ raised' = raised
                     /\ pc' = Set(pc, r, "select")
    /\ UNCHANGED <<db, req, geo, origin_coords, fetched, candidates, best, tie, response>>

\* lines 219-233 with the fallback of lines 227-230 over the unfiltered list
SelectFallbackUnfiltered(r) ==
    /\ pc[r] = "select"
    /\ candidates' = Set(candidates, r,
           IF CandidatesWithin(origin_coords[r][1], stations[r], req[r].max_distance_km) = << >>
              THEN Truncate(SortByDistance(StationsWithDist(origin_coords[r][1], fetched[r][1])))
              ELSE SelectCandidates(origin_coords[r][1], stations[r], req[r].max_distance_km))
    /\ pc' = Set(pc, r, "respond")
    /\ UNCHANGED <<db, req, geo, origin_coords, fetched, stations, best, tie, raised, response>>

\* lines 219-233
Select(r) ==
    /\ pc[r] = "select"
    /\ candidates' = Set(candidates, r,
           SelectCandidates(origin_coords[r][1], stations[r], req[r].max_distance_km))
    /\ pc' = Set(pc, r, "respond")
    /\ UNCHANGED <<db, req, geo, origin_coords, fetched, stations, best, tie, raised, response>>

\* lines 236-278; the graph G of lines 236-246 is local and only written
Respond(r) ==
    /\ pc[r] = "respond"
    /\ \E rule \in TieChoices :
          LET b == MinByDistance(candidates[r])
          IN /\ tie' = Set(tie, r, rule)
             /\ best' = Set(best, r, Some(b))
             /\ response' = Set(response, r,
                    Some(OptimizeResponse(origin_coords[r][1], candidates[r], b, rule)))
    /\ pc' = Set(pc, r, "returned")
    /\ UNCHANGED <<db, req, geo, origin_coords, fetched, stations, candidates, raised>>

Requests == DOMAIN pc

Next ==
    \/ \E r \in Requests : Geocode(r)
    \/ \E r \in Requests : ListStations(r)
    \/ \E r \in Requests : FilterCharger(r)
    \/ \E r \in Requests : Select(r)
    \/ \E r \in Requests : Respond(r)

InitRequests(R, RS) ==
    /\ req \in [R -> RS]
    /\ pc = [r \in R |-> "geocode"]
    /\ geo = [r \in R |-> "pending"]
    /\ origin_coords = [r \in R |-> None]
    /\ fetched = [r \in R |-> None]
    /\ stations = [r \in R |-> << >>]
    /\ candidates = [r \in R |-> << >>]
    /\ best = [r \in R |-> None]
    /\ tie = [r \in R |-> [km |-> "even", eta |-> "up"]]
    /\ raised = [r \in R |-> None]
    /\ response = [r \in R |-> None]

\* one request against any database
Init ==
    /\ db \in Databases(MaxStations)
    /\ InitRequests({1}, OptimizeRequests)

Spec == Init /\ [][Next]_vars

\* the requests of a concurrent run
ConcurrentRequests ==
    [origin : {"potsdam", "nowhere"}, max_distance_km : {46},
     preferred_charger : {None, Some(StrCCS)}]

\* several requests in flight at once (the sync handler runs in a thread pool)
InitConc ==
    /\ db \in Databases(MaxStationsConc)
    /\ InitRequests(1..NumConcurrent, ConcurrentRequests)

SpecConc == InitConc /\ [][Next]_vars

-----------------------------------------------------------------------------
(* What the properties below speak of *)

IsReturned(r) == pc[r] = "returned"

IsRaised(r) == pc[r] = "raised"

HasCandidates(r) == pc[r] \in {"respond", "returned"}

Resp(r) == response[r][1]

\* the distance of station s from the resolved origin of r
Dist(r, s) ==
    IF s.latitude >= origin_coords[r][1].lat
        THEN s.latitude - origin_coords[r][1].lat
        ELSE origin_coords[r][1].lat - s.latitude

\* the filtered stations within the radius of r
WithinSet(r) ==
    {s \in {stations[r][i] : i \in DOMAIN stations[r]} :
        Dist(r, s) <= req[r].max_distance_km}

\* the stations the candidates of r are to be drawn from
Pool(r) ==
    IF WithinSet(r) # {} THEN WithinSet(r)
    ELSE {stations[r][i] : i \in DOMAIN stations[r]}

CandidateStations(r) == {candidates[r][k].station : k \in DOMAIN candidates[r]}

\* where station s stands in the snapshot r fetched
PosIn(r, s) == CHOOSE k \in DOMAIN fetched[r][1] : fetched[r][1][k] = s

\* station s has the charger type p, case-insensitively
MatchesCharger(s, p) ==
    /\ Len(s.charger_type) = Len(p)
    /\ \A i \in DOMAIN p :
          \/ s.charger_type[i] = p[i]
          \/ s.charger_type[i] \in 65..90 /\ p[i] = s.charger_type[i] + 32
          \/ p[i] \in 65..90 /\ s.charger_type[i] = p[i] + 32

\* no station of the snapshot r fetched has the preferred charger type
NoStationMatches(r) ==
    /\ fetched[r] # None
    /\ req[r].preferred_charger # None
    /\ \A i \in DOMAIN fetched[r][1] :
          ~MatchesCharger(fetched[r][1][i], req[r].preferred_charger[1])

-----------------------------------------------------------------------------
(* C1 *)

\* C1: a returned candidates list has at most 5 entries and is sorted
\* non-decreasing by the reported (2-decimal) distance_km, within the radius
\* and in the fallback alike.
C1_AtMostFiveSorted ==
    \A r \in Requests :
        IsReturned(r) =>
            LET cs == Resp(r).candidates
            IN /\ Len(cs) <= 5
               /\ \A i, j \in DOMAIN cs :
                     i < j => cs[i].distance_km <= cs[j].distance_km

\* six stations, none within the radius, the first of the snapshot not the
\* nearest: the fallback sorted and cut to five, of two different distances
C1_Witness ==
    \E r \in Requests :
        /\ IsReturned(r)
        /\ Len(stations[r]) = 6
        /\ WithinSet(r) = {}
        /\ Dist(r, stations[r][1]) > Dist(r, stations[r][2])
        /\ Len(Resp(r).candidates) = 5
        /\ Resp(r).candidates[1].distance_km < Resp(r).candidates[5].distance_km

-----------------------------------------------------------------------------
(* C2 *)

\* C2: over the stations left by the charger filter, if some station is
\* within max_distance_km then every candidate is within it and the
\* candidates are the (up to 5) nearest of those within; if none is, the
\* candidates are the (up to 5) nearest of all.
C2_NearestOfPool ==
    \A r \in Requests :
        HasCandidates(r) =>
            /\ CandidateStations(r) \subseteq Pool(r)
            /\ Cardinality(CandidateStations(r)) = Len(candidates[r])
            /\ Len(candidates[r]) =
                  (IF Cardinality(Pool(r)) <= 5 THEN Cardinality(Pool(r)) ELSE 5)
            /\ \A k \in DOMAIN candidates[r] :
                  candidates[r][k].distance_km = Dist(r, candidates[r][k].station)
            /\ \A c \in CandidateStations(r) :
                  \A s \in Pool(r) \ CandidateStations(r) : Dist(r, c) <= Dist(r, s)
            /\ WithinSet(r) # {} =>
                  \A k \in DOMAIN candidates[r] :
                      candidates[r][k].distance_km <= req[r].max_distance_km

\* the first station of the snapshot lies beyond the radius, a later one
\* within it: the candidates are the ones within
C2_Witness ==
    \E r \in Requests :
        /\ IsReturned(r)
        /\ Len(stations[r]) >= 3
        /\ Dist(r, stations[r][1]) > req[r].max_distance_km
        /\ WithinSet(r) # {}
        /\ Len(candidates[r]) = Cardinality(WithinSet(r))
        /\ Len(candidates[r]) < Len(stations[r])

-----------------------------------------------------------------------------
(* C3 *)

\* C3: in every result best_station is the station of candidates[0], and the
\* result's distance_km is the reported distance_km of candidates[0], the
\* 2-decimal rounding of its distance.
C3_BestIsFirstCandidate ==
    \A r \in Requests :
        IsReturned(r) =>
            /\ best[r][1].station = candidates[r][1].station
            /\ Resp(r).best_station = candidates[r][1].station
            /\ Resp(r).distance_km = Resp(r).candidates[1].distance_km
            /\ 10 * Resp(r).distance_km - candidates[r][1].distance_km \in -5..5

\* two candidates share the smallest distance, so min() has a choice
C3_Witness ==
    \E r \in Requests :
        /\ IsReturned(r)
        /\ Len(candidates[r]) >= 2
        /\ candidates[r][1].distance_km = candidates[r][2].distance_km
        /\ candidates[r][1].station # candidates[r][2].station

-----------------------------------------------------------------------------
(* C4 *)

\* C4 as claimed: with preferred_charger set (not None) and no station of
\* the snapshot matching it case-insensitively, the request fails with
\* NoStationsForFilter and returns no result, whatever max_distance_km is.
C4_SetFilterNoMatchFails ==
    \A r \in Requests :
        (NoStationMatches(r) /\ pc[r] # "filter") =>
            /\ IsRaised(r)
            /\ raised[r] = Some(NoStationsForFilter)
            /\ response[r] = None

\* C4 as amended: the same for a preferred_charger that is a non-empty
\* string; the empty string switches the filter off.
C4_NonEmptyFilterNoMatchFails ==
    \A r \in Requests :
        (NoStationMatches(r) /\ req[r].preferred_charger[1] # StrEmpty
            /\ pc[r] # "filter") =>
            /\ IsRaised(r)
            /\ raised[r] = Some(NoStationsForFilter)
            /\ response[r] = None
            /\ candidates[r] = << >>

\* a non-empty snapshot, no station of the preferred type, a radius that no
\* station is within: the request has failed
C4_Witness ==
    \E r \in Requests :
        /\ IsRaised(r)
        /\ NoStationMatches(r)
        /\ req[r].preferred_charger = Some(StrCHAdeMO)
        /\ Len(fetched[r][1]) >= 2
        /\ req[r].max_distance_km < 0

-----------------------------------------------------------------------------
(* C5 *)

\* C5: when the geocoding provider finds no match or raises, the request
\* ends in the one OriginNotFound condition, and the station listing, the
\* candidate selection and the route building are never started.
C5_GeocodeFailureStopsRequest ==
    \A r \in Requests :
        geo[r] \in {"none", "raise"} =>
            /\ IsRaised(r)
            /\ raised[r] = Some(OriginNotFound)
            /\ origin_coords[r] = None
            /\ fetched[r] = None
            /\ stations[r] = << >>
            /\ candidates[r] = << >>
            /\ best[r] = None
            /\ response[r] = None

\* the provider raised for a place it knows
C5_Witness ==
    \E r \in Requests :
        /\ geo[r] = "raise"
        /\ req[r].origin \in DOMAIN Gazetteer
        /\ IsRaised(r)
        /\ db.connected /\ db.station # << >>

-----------------------------------------------------------------------------
(* C6 *)

\* C6 as claimed: eta_minutes is round(distance_km, 1) of the result's own
\* distance_km, the value already rounded to 2 decimals.
C6_EtaIsRoundOfReported ==
    \A r \in Requests :
        IsReturned(r) =>
            Resp(r).eta_minutes = RoundTo(Resp(r).distance_km, 10, tie[r].km)

\* C6 as amended: eta_minutes is the 1-decimal rounding of the unrounded
\* distance of the best candidate: a tenth nearest to that distance, so
\* within 0.05 of it.
C6_EtaIsRoundOfUnrounded ==
    \A r \in Requests :
        IsReturned(r) =>
            /\ 100 * Resp(r).eta_minutes - best[r][1].distance_km \in -50..50
            /\ \E rule \in TieRules :
                  Resp(r).eta_minutes = RoundTo(best[r][1].distance_km, 100, rule)

\* a best station 0.046 km away, ties going up as for the double 0.05:
\* distance_km 0.05, eta_minutes 0.0, and round(0.05, 1) is 0.1
C6_Witness ==
    \E r \in Requests :
        /\ IsReturned(r)
        /\ best[r][1].distance_km = 46
        /\ tie[r].km = "up"
        /\ Resp(r).distance_km = 5
        /\ Resp(r).eta_minutes = 0
        /\ RoundTo(Resp(r).distance_km, 10, tie[r].km) = 1

-----------------------------------------------------------------------------
(* C7 *)

\* C7 as claimed: with preferred_charger set (not None), every candidate
\* and the best station have that charger type case-insensitively, in the
\* fallback too.
C7_SetFilterOnlyMatching ==
    \A r \in Requests :
        (HasCandidates(r) /\ req[r].preferred_charger # None) =>
            /\ \A k \in DOMAIN candidates[r] :
                  MatchesCharger(candidates[r][k].station, req[r].preferred_charger[1])
            /\ IsReturned(r) =>
                  MatchesCharger(Resp(r).best_station, req[r].preferred_charger[1])

\* C7 as amended: the same for a preferred_charger that is a non-empty string.
C7_NonEmptyFilterOnlyMatching ==
    \A r \in Requests :
        (HasCandidates(r) /\ req[r].preferred_charger # None
            /\ req[r].preferred_charger[1] # StrEmpty) =>
            /\ \A k \in DOMAIN candidates[r] :
                  MatchesCharger(candidates[r][k].station, req[r].preferred_charger[1])
            /\ IsReturned(r) =>
                  /\ MatchesCharger(Resp(r).best_station, req[r].preferred_charger[1])
                  /\ \A k \in DOMAIN Resp(r).candidates :
                        MatchesCharger(Resp(r).candidates[k],
                                       req[r].preferred_charger[1])

\* the fallback with a filter that removed the nearest station of the snapshot
C7_Witness ==
    \E r \in Requests :
        /\ IsReturned(r)
        /\ req[r].preferred_charger = Some(StrCCS)
        /\ WithinSet(r) = {}
        /\ Len(stations[r]) < Len(fetched[r][1])
        /\ \E i \in DOMAIN fetched[r][1] :
              /\ ~MatchesCharger(fetched[r][1][i], StrCCS)
              /\ Dist(r, fetched[r][1][i]) < candidates[r][1].distance_km
        /\ \E k \in DOMAIN candidates[r] :
              candidates[r][k].station.charger_type = StrCcsLower

-----------------------------------------------------------------------------
(* C8 *)

\* C8: ties in distance are settled by the order of the snapshot alone:
\* candidates of equal distance keep their snapshot order, a candidate comes
\* before every station of equal distance that the cut to 5 left out, and
\* best_station is the first station of the snapshot among the nearest.
C8_TiesKeepSnapshotOrder ==
    \A r \in Requests :
        HasCandidates(r) =>
            /\ \A i, j \in DOMAIN candidates[r] :
                  (i < j /\ candidates[r][i].distance_km = candidates[r][j].distance_km)
                      => PosIn(r, candidates[r][i].station)
                            < PosIn(r, candidates[r][j].station)
            /\ \A c \in CandidateStations(r) :
                  \A s \in Pool(r) \ CandidateStations(r) :
                      Dist(r, s) = Dist(r, c) => PosIn(r, c) < PosIn(r, s)
            /\ IsReturned(r) =>
                  \A s \in Pool(r) :
                      /\ Dist(r, Resp(r).best_station) <= Dist(r, s)
                      /\ Dist(r, s) = Dist(r, Resp(r).best_station)
                            => PosIn(r, Resp(r).best_station) <= PosIn(r, s)

\* six stations of one distance, of two kinds, the last one cut off; a nearer
\* pair would not do, the tie is at the cut
C8_Witness ==
    \E r \in Requests :
        /\ IsReturned(r)
        /\ Len(stations[r]) = 6
        /\ Len(candidates[r]) = 5
        /\ Dist(r, stations[r][6]) = candidates[r][5].distance_km
        /\ stations[r][6] \notin CandidateStations(r)
        /\ candidates[r][1].station.latitude # candidates[r][2].station.latitude
        /\ candidates[r][1].distance_km = candidates[r][2].distance_km

-----------------------------------------------------------------------------
(* C9 *)

\* what request r raises when it runs alone against the store
AloneRaised(r) ==
    IF geo[r] # "location" THEN Some(OriginNotFound)
    ELSE IF FilteredStations(list_stations(db), req[r].preferred_charger) = << >>
        THEN Some(NoStationsForFilter)
    ELSE None

\* what request r returns when it runs alone against the store
AloneResponse(r) ==
    IF AloneRaised(r) # None THEN None
    ELSE LET o == [lat |-> Gazetteer[req[r].origin]]
             cs == SelectCandidates(o,
                       FilteredStations(list_stations(db), req[r].preferred_charger),
                       req[r].max_distance_km)
         IN Some(OptimizeResponse(o, cs, MinByDistance(cs), tie[r]))

OutcomeAsAlone ==
    \A r \in Requests :
        /\ fetched[r] # None => fetched[r] = Some(list_stations(db))
        /\ (IsReturned(r) \/ IsRaised(r)) =>
              /\ raised[r] = AloneRaised(r)
              /\ response[r] = AloneResponse(r)

StoreAndSnapshotsKept ==
    /\ db' = db
    /\ \A r \in Requests : fetched[r] # None => fetched'[r] = fetched[r]

\* C9: requests share no mutable state: under every interleaving each
\* request ends as it would alone with the same request, geocoding answer
\* and snapshot, and no step changes the store or a fetched snapshot.
C9_RequestsIndependent == []OutcomeAsAlone /\ [][StoreAndSnapshotsKept]_vars

\* two finished requests, one with the filter, one without, that ended
\* differently over the same store
C9_Witness ==
    \E r1, r2 \in Requests :
        /\ r1 # r2
        /\ IsReturned(r1) /\ IsReturned(r2)
        /\ req[r1].preferred_charger = Some(StrCCS)
        /\ req[r2].preferred_charger = None
        /\ Len(stations[r1]) < Len(stations[r2])
        /\ Resp(r1).best_station # Resp(r2).best_station

-----------------------------------------------------------------------------
(* C10 *)

\* some station of the snapshot r fetched is left by the charger filter
SomeStationSurvives(r) ==
    /\ fetched[r] # None
    /\ \E i \in DOMAIN fetched[r][1] :
          \/ req[r].preferred_charger \in {None, Some(StrEmpty)}
          \/ MatchesCharger(fetched[r][1][i], req[r].preferred_charger[1])

\* C10: a request ends in a failure or in a result with at least one
\* candidate; an empty snapshot fails with NoStationsForFilter also when no
\* charger type is asked for; and once a station is left by the filter the
\* request does not fail, whatever max_distance_km is.
C10_NeverEmptyResult ==
    \A r \in Requests :
        /\ HasCandidates(r) => Len(candidates[r]) >= 1
        /\ IsReturned(r) =>
              /\ raised[r] = None
              /\ response[r] # None
              /\ Len(Resp(r).candidates) >= 1
        /\ IsRaised(r) => raised[r] # None /\ response[r] = None
        /\ (fetched[r] = Some(<< >>) /\ pc[r] # "filter") =>
              IsRaised(r) /\ raised[r] = Some(NoStationsForFilter)
        /\ SomeStationSurvives(r) =>
              /\ ~IsRaised(r)
              /\ raised[r] = None
              /\ pc[r] \in {"filter", "select", "respond", "returned"}

\* a result for a negative radius: the fallback gave the candidates
C10_Witness ==
    \E r \in Requests :
        /\ IsReturned(r)
        /\ req[r].max_distance_km < 0
        /\ req[r].preferred_charger = Some(StrEmpty)
        /\ Len(Resp(r).candidates) >= 1

\* an empty snapshot with no charger type asked for has failed
C10_EmptySnapshotCase ==
    \E r \in Requests :
        /\ fetched[r] = Some(<< >>)
        /\ req[r].preferred_charger = None
        /\ IsRaised(r)
        /\ raised[r] = Some(NoStationsForFilter)

====
